---- MODULE Spec2Model ----
(***************************************************************************)
(* Model of tools/extract-flag-layers.js: the batch extractor that turns   *)
(* every flag SVG into at most TARGET_LAYERS per-color layer files and a   *)
(* manifest entry.  One action per step of main(); the pure helpers        *)
(* (toHex, brightnessScore, orderColorsForReveal, collectColorMeta,        *)
(* splitIntoPieces, expandLargePlans, selectFinalPlans, the depth sort)    *)
(* are operators computed the way the code computes them.                  *)
(***************************************************************************)
EXTENDS Integers, Sequences, FiniteSets, TLC

(***************************************************************************)
(* Program constants.                                                      *)
(***************************************************************************)
TARGET_LAYERS == 6
SPLIT_ENTRY_THRESHOLD == 10
DETAIL_BOOST == 1000000
GUARD_LIMIT == 60
SKIP_CODES == {"cp", "xx", "um"}

NULL == "null"

(***************************************************************************)
(* Generic sequence helpers.                                               *)
(***************************************************************************)
Range(s) == {s[i] : i \in DOMAIN s}

Max(a, b) == IF a >= b THEN a ELSE b

Min(a, b) == IF a <= b THEN a ELSE b

\* ceil(a / b) for a >= 0, b > 0
CeilDiv(a, b) == (a + b - 1) \div b

RECURSIVE FlattenSeq(_)
FlattenSeq(ss) ==
  IF ss = << >> THEN << >> ELSE Head(ss) \o FlattenSeq(Tail(ss))

FilterSeq(s, Keep(_)) ==
  LET F[i \in 0..Len(s)] ==
        IF i = 0 THEN << >>
        ELSE IF Keep(s[i]) THEN Append(F[i - 1], s[i]) ELSE F[i - 1]
  IN  F[Len(s)]

\* Array.prototype.sort is stable: each item goes after every item already
\* placed that does not compare greater than it.
InsertSorted(sorted, item, Cmp(_, _)) ==
  LET k == Cardinality({i \in DOMAIN sorted : Cmp(sorted[i], item) <= 0})
  IN  SubSeq(sorted, 1, k) \o <<item>> \o SubSeq(sorted, k + 1, Len(sorted))

StableSort(s, Cmp(_, _)) ==
  LET S[i \in 0..Len(s)] ==
        IF i = 0 THEN << >> ELSE InsertSorted(S[i - 1], s[i], Cmp)
  IN  S[Len(s)]

(***************************************************************************)
(* Colors.  A paint value is the raw attribute text of an element; toHex   *)
(* normalises it to #rrggbb or null.                                       *)
(***************************************************************************)
\* raw paint text -> canonical hex, for the paint values the inputs use
PaintTable ==
  [ raw \in {"#f00", "red", "#FF0000", "#fff", "white", "#FFFFFF", "#000",
             "black", "#00f", "#0f0", "#ff0", "#0ff", "#f0f"} |->
      CASE raw \in {"#f00", "red", "#FF0000"} -> "#ff0000"
        [] raw \in {"#fff", "white", "#FFFFFF"} -> "#ffffff"
        [] raw \in {"#000", "black"} -> "#000000"
        [] raw = "#00f" -> "#0000ff"
        [] raw = "#0f0" -> "#00ff00"
        [] raw = "#ff0" -> "#ffff00"
        [] raw = "#0ff" -> "#00ffff"
        [] raw = "#f0f" -> "#ff00ff" ]

\* toHex: null for a missing attribute, 'none', 'transparent' and whatever
\* Color() rejects (paint servers such as url(#id)).
toHex(c) ==
  IF c = NULL \/ c = "" THEN NULL
  ELSE IF c = "none" \/ c = "transparent" THEN NULL
  ELSE IF c \in DOMAIN PaintTable THEN PaintTable[c]
  ELSE NULL

\* Color(hex).luminosity() (WCAG relative luminance), scaled by 10000
Luminosity(hex) ==
  CASE hex = "#ff0000" -> 2126
    [] hex = "#00ff00" -> 7152
    [] hex = "#0000ff" -> 722
    [] hex = "#ffff00" -> 9278
    [] hex = "#00ffff" -> 7874
    [] hex = "#ff00ff" -> 2848
    [] hex = "#ffffff" -> 10000
    [] hex = "#000000" -> 0
    [] OTHER -> 0

brightnessScore(hex) ==
  IF hex = NULL THEN 0
  ELSE IF hex = "#ffffff" THEN -1
  ELSE Luminosity(hex)

\* hex.replace('#', '')
StripHash(hex) ==
  CASE hex = "#ff0000" -> "ff0000"
    [] hex = "#00ff00" -> "00ff00"
    [] hex = "#0000ff" -> "0000ff"
    [] hex = "#ffff00" -> "ffff00"
    [] hex = "#00ffff" -> "00ffff"
    [] hex = "#ff00ff" -> "ff00ff"
    [] hex = "#ffffff" -> "ffffff"
    [] hex = "#000000" -> "000000"
    [] OTHER -> hex

IsTailColor(hex) ==
  hex \in {"#ffffff", "#fff", "#000000", "#000"}

IsPrimaryColor(hex) == ~IsTailColor(hex)

IsPresent(hex) == hex # NULL

orderColorsForReveal(colors) ==
  LET present == FilterSeq(colors, IsPresent)
  IN  FilterSeq(present, IsPrimaryColor) \o FilterSeq(present, IsTailColor)

(***************************************************************************)
(* collectColorMeta: walk the elements in document order and record, per   *)
(* color, the elements painted with it.  meta.order is the insertion order *)
(* of the Map's keys, meta.entries[k] the entries of color meta.order[k]   *)
(* in insertion order.  Element indexes are 0-based; 0 is the root <svg>.  *)
(***************************************************************************)
EmptyMeta == [order |-> << >>, entries |-> << >>]

NewEntry(idx, inDefs) ==
  [index |-> idx, keepFill |-> FALSE, keepStroke |-> FALSE, inDefs |-> inDefs]

\* the position of a color among the Map's keys, 0 when it is no key
keyPosition(order, colorHex) ==
  IF \E k \in DOMAIN order : order[k] = colorHex
  THEN CHOOSE k \in DOMAIN order : order[k] = colorHex
  ELSE 0

\* colorMeta.get(hex): the entries of a color, in insertion order
entriesOfColor(meta, colorHex) ==
  LET k == keyPosition(meta.order, colorHex)
  IN  IF k = 0 THEN << >> ELSE meta.entries[k]

\* byElement.has(idx) / byElement.get(idx): the position of the element's
\* entry, 0 when it has none
IndexOfEntry(entries, idx) ==
  IF \E i \in DOMAIN entries : entries[i].index = idx
  THEN CHOOSE i \in DOMAIN entries : entries[i].index = idx
  ELSE 0

addEntry(meta, colorHex, idx, inDefs, keepFill, keepStroke) ==
  IF colorHex = NULL THEN meta
  ELSE
    LET k == keyPosition(meta.order, colorHex)
        old == IF k = 0 THEN << >> ELSE meta.entries[k]
        at == IndexOfEntry(old, idx)
        base == IF at = 0 THEN NewEntry(idx, inDefs) ELSE old[at]
        entry == [base EXCEPT !.keepFill = @ \/ keepFill,
                              !.keepStroke = @ \/ keepStroke]
        new == IF at = 0 THEN Append(old, entry) ELSE [old EXCEPT ![at] = entry]
    IN  IF k = 0
        THEN [order |-> Append(meta.order, colorHex),
              entries |-> Append(meta.entries, new)]
        ELSE [order |-> meta.order,
              entries |-> [meta.entries EXCEPT ![k] = new]]

visitElement(meta, el, idx) ==
  IF el.tag = "svg" THEN meta
  ELSE
    LET fillHex == toHex(el.fill)
        strokeHex == toHex(el.stroke)
    IN  IF fillHex # NULL /\ strokeHex # NULL /\ fillHex = strokeHex
        THEN addEntry(meta, fillHex, idx, el.inDefs, TRUE, TRUE)
        ELSE addEntry(addEntry(meta, fillHex, idx, el.inDefs, TRUE, FALSE),
                      strokeHex, idx, el.inDefs, FALSE, TRUE)

\* Two walks joined: the keys of the first, then the new keys of the second,
\* each color's entries in walk order.
joinMeta(a, b) ==
  LET order == a.order \o FilterSeq(b.order, LAMBDA c : keyPosition(a.order, c) = 0)
  IN  [order |-> order,
       entries |-> [k \in DOMAIN order |->
                      entriesOfColor(a, order[k]) \o entriesOfColor(b, order[k])]]

\* els.forEach over the positions lo..hi.  An element adds entries under its
\* own index only, so the walk of a range is the walk of its first half
\* joined with the walk of its second half; halving keeps the evaluation
\* shallow.
RECURSIVE collectRange(_, _, _)
collectRange(els, lo, hi) ==
  IF lo > hi THEN EmptyMeta
  ELSE IF lo = hi THEN visitElement(EmptyMeta, els[lo], lo - 1)
  ELSE LET mid == (lo + hi) \div 2
       IN  joinMeta(collectRange(els, lo, mid), collectRange(els, mid + 1, hi))

collectColorMeta(els) == collectRange(els, 1, Len(els))

(***************************************************************************)
(* Layer plans.  A clip rectangle is kept in units of 1/ClipUnit of the    *)
(* viewport, so that every cut by 2 or 3 the code can make is exact.       *)
(***************************************************************************)
ClipUnit == 6 * 6 * 6

\* clip: null
NoClip == [type |-> "none"]

\* what splitIntoPieces returns for null
NoPieces == << >>

UnitClip == [type |-> "rect", orientation |-> "none",
   x0 |-> 0, x1 |-> ClipUnit, y0 |-> 0, y1 |-> ClipUnit]

entryIndexCmp(a, b) == a.index - b.index

\* merge of two sorted runs; on a tie the left item goes first (stable)
RECURSIVE mergeByIndex(_, _)
mergeByIndex(left, right) ==
  IF left = << >> THEN right
  ELSE IF right = << >> THEN left
  ELSE IF entryIndexCmp(left[Len(left)], right[1]) <= 0 THEN left \o right
  ELSE IF entryIndexCmp(Head(left), Head(right)) <= 0
       THEN <<Head(left)>> \o mergeByIndex(Tail(left), right)
       ELSE <<Head(right)>> \o mergeByIndex(left, Tail(right))

\* entries.sort((a, b) => a.index - b.index), a stable merge sort
RECURSIVE sortEntriesByIndex(_)
sortEntriesByIndex(entries) ==
  IF Len(entries) <= 1 THEN entries
  ELSE LET mid == Len(entries) \div 2
       IN  mergeByIndex(sortEntriesByIndex(SubSeq(entries, 1, mid)),
                        sortEntriesByIndex(SubSeq(entries, mid + 1, Len(entries))))

\* lines 543-555: runs of entries whose element indexes are consecutive.
\* `prev` is always the entry just before `next`, so the runs of a range
\* are the runs of its halves, joined where the halves meet.
RECURSIVE groupsOfRange(_, _, _)
groupsOfRange(entries, lo, hi) ==
  IF lo = hi THEN << <<entries[lo]>> >>
  ELSE LET mid == (lo + hi) \div 2
           left == groupsOfRange(entries, lo, mid)
           right == groupsOfRange(entries, mid + 1, hi)
       IN  IF entries[mid + 1].index - entries[mid].index <= 1
           THEN SubSeq(left, 1, Len(left) - 1)
                  \o << left[Len(left)] \o right[1] >>
                  \o SubSeq(right, 2, Len(right))
           ELSE left \o right

\* faulty variant: all the entries of a color form one group
contiguousGroups_oneGroup(entries) == <<entries>>

contiguousGroups(entries) == groupsOfRange(entries, 1, Len(entries))

\* group.reduce(Math.max)
groupMaxIndex(group) ==
  CHOOSE m \in {group[i].index : i \in DOMAIN group} :
    \A i \in DOMAIN group : group[i].index <= m

groupOffset(group) ==
  LET anyFill == \E i \in DOMAIN group : group[i].keepFill
      anyStroke == \E i \in DOMAIN group : group[i].keepStroke
      anyFillAndStroke ==
        \E i \in DOMAIN group : group[i].keepFill /\ group[i].keepStroke
  IN  IF anyFillAndStroke THEN 2
      ELSE IF anyStroke /\ ~anyFill THEN 1
      ELSE 0

\* lines 557-576: the plan of one group
planOfGroup(hex, group) ==
  [color |-> hex,
   entries |-> group,
   clip |-> NoClip,
   zBase |-> groupMaxIndex(group) * 10 + groupOffset(group),
   splitOffset |-> 0,
   splitGeneration |-> 0,
   forceTop |-> \E i \in DOMAIN group : group[i].inDefs,
   brightness |-> brightnessScore(hex)]

\* lines 535-577, one color
plansOfColor(meta, hex) ==
  LET entries == sortEntriesByIndex(entriesOfColor(meta, hex))
  IN  IF Len(entries) = 0 THEN << >>
      ELSE LET groups == contiguousGroups(entries)
           IN  [g \in DOMAIN groups |-> planOfGroup(hex, groups[g])]

\* lines 533-577
buildLayerPlans(meta, colorReveal) ==
  FlattenSeq([c \in DOMAIN colorReveal |-> plansOfColor(meta, colorReveal[c])])

(***************************************************************************)
(* splitIntoPieces                                                         *)
(***************************************************************************)
\* faulty variant: every cut is vertical
pieceClip_alwaysVertical(baseClip, orientation, i, pieceCount) ==
  LET span == Max(baseClip.x1 - baseClip.x0, 0)
  IN  [type |-> "rect", orientation |-> orientation,
       x0 |-> baseClip.x0 + (span * i) \div pieceCount,
       x1 |-> baseClip.x0 + (span * (i + 1)) \div pieceCount,
       y0 |-> baseClip.y0, y1 |-> baseClip.y1]

pieceClip(baseClip, orientation, i, pieceCount) ==
  IF orientation = "vertical"
  THEN LET span == Max(baseClip.x1 - baseClip.x0, 0)
       IN  [type |-> "rect", orientation |-> orientation,
            x0 |-> baseClip.x0 + (span * i) \div pieceCount,
            x1 |-> baseClip.x0 + (span * (i + 1)) \div pieceCount,
            y0 |-> baseClip.y0, y1 |-> baseClip.y1]
  ELSE LET span == Max(baseClip.y1 - baseClip.y0, 0)
       IN  [type |-> "rect", orientation |-> orientation,
            y0 |-> baseClip.y0 + (span * i) \div pieceCount,
            y1 |-> baseClip.y0 + (span * (i + 1)) \div pieceCount,
            x0 |-> baseClip.x0, x1 |-> baseClip.x1]

splitIntoPieces(plan, pieceCount) ==
  IF pieceCount <= 1 THEN NoPieces
  ELSE
    LET baseClip == IF plan.clip.type = "rect" THEN plan.clip ELSE UnitClip
        generation == plan.splitGeneration
        orientation == IF generation % 2 = 0 THEN "vertical" ELSE "horizontal"
    IN  [k \in 1..pieceCount |->
           [color |-> plan.color,
            entries |-> plan.entries,
            clip |-> pieceClip(baseClip, orientation, k - 1, pieceCount),
            zBase |-> plan.zBase,
            splitOffset |-> plan.splitOffset * 10 + (k - 1),
            splitGeneration |-> generation + 1,
            forceTop |-> plan.forceTop,
            brightness |-> plan.brightness]]

(***************************************************************************)
(* expandLargePlans                                                        *)
(***************************************************************************)
\* faulty variant: a plan of exactly SPLIT_ENTRY_THRESHOLD entries is split too
expandOne_atThreshold(plan) ==
  IF Len(plan.entries) < SPLIT_ENTRY_THRESHOLD THEN <<plan>>
  ELSE LET pieceCount == Min(3, (Len(plan.entries) \div SPLIT_ENTRY_THRESHOLD) + 1)
           pieces == splitIntoPieces(plan, pieceCount)
       IN  IF Len(pieces) > 1 THEN pieces ELSE <<plan>>

expandOne(plan) ==
  IF Len(plan.entries) < SPLIT_ENTRY_THRESHOLD THEN <<plan>>
  ELSE LET pieceCount == Min(3, CeilDiv(Len(plan.entries), SPLIT_ENTRY_THRESHOLD))
           pieces == splitIntoPieces(plan, pieceCount)
       IN  IF Len(pieces) > 1 THEN pieces ELSE <<plan>>

expandLargePlans(plans) ==
  FlattenSeq([i \in DOMAIN plans |-> expandOne(plans[i])])

(***************************************************************************)
(* selectFinalPlans.  Plans are named by their position in `plans`, which  *)
(* stands for the object identity the code's `included` Set relies on.     *)
(***************************************************************************)
\* keys of byColor, in Map insertion order
planColors(plans) ==
  LET C[i \in 0..Len(plans)] ==
        IF i = 0 THEN << >>
        ELSE LET seen == C[i - 1]
             IN  IF plans[i].color \in Range(seen) THEN seen
                 ELSE Append(seen, plans[i].color)
  IN  C[Len(plans)]

\* lines 315-322: the positions of one color's plans, most entries first,
\* then smallest splitOffset
colorGroup(plans, color) ==
  LET members == FilterSeq([i \in DOMAIN plans |-> i],
                           LAMBDA i : plans[i].color = color)
      cmp(a, b) ==
        IF Len(plans[b].entries) # Len(plans[a].entries)
        THEN Len(plans[b].entries) - Len(plans[a].entries)
        ELSE plans[a].splitOffset - plans[b].splitOffset
  IN  StableSort(members, cmp)

pointerOf(ptr, color) == IF color \in DOMAIN ptr THEN ptr[color] ELSE 0

\* lines 324-331: one plan of every color, in the order of `colors`
RECURSIVE firstPass(_, _, _, _, _)
firstPass(plans, target, colors, pos, st) ==
  IF pos > Len(colors) \/ st.returned THEN st
  ELSE
    LET color == colors[pos]
        group == colorGroup(plans, color)
    IN  IF Len(group) = 0 THEN firstPass(plans, target, colors, pos + 1, st)
        ELSE LET final == Append(st.final, group[1])
             IN  firstPass(plans, target, colors, pos + 1,
                           [final |-> final,
                            ptr |-> (color :> 1) @@ st.ptr,
                            progress |-> st.progress,
                            returned |-> Len(final) >= target])

\* lines 336-350: one round over the colors, the next plan of each
RECURSIVE roundPass(_, _, _, _, _)
roundPass(plans, target, colors, pos, st) ==
  IF pos > Len(colors) \/ st.returned THEN st
  ELSE
    LET color == colors[pos]
        group == colorGroup(plans, color)
        idx == pointerOf(st.ptr, color)
    IN  IF idx >= Len(group) THEN roundPass(plans, target, colors, pos + 1, st)
        ELSE IF group[idx + 1] \in Range(st.final)
        THEN roundPass(plans, target, colors, pos + 1,
                       [st EXCEPT !.ptr = (color :> idx + 1) @@ st.ptr])
        ELSE LET final == Append(st.final, group[idx + 1])
             IN  roundPass(plans, target, colors, pos + 1,
                           [final |-> final,
                            ptr |-> (color :> idx + 1) @@ st.ptr,
                            progress |-> TRUE,
                            returned |-> Len(final) >= target])

\* lines 333-351
RECURSIVE roundRobin(_, _, _, _)
roundRobin(plans, target, colors, st) ==
  IF st.returned \/ ~(Len(st.final) < target /\ st.progress) THEN st
  ELSE roundRobin(plans, target, colors,
                  roundPass(plans, target, colors, 1,
                            [st EXCEPT !.progress = FALSE]))

\* lines 353-358: the plans not yet taken, in original order
RECURSIVE fallbackFill(_, _, _, _)
fallbackFill(plans, target, pos, final) ==
  IF pos > Len(plans) \/ Len(final) >= target THEN final
  ELSE IF pos \in Range(final) THEN fallbackFill(plans, target, pos + 1, final)
  ELSE fallbackFill(plans, target, pos + 1, Append(final, pos))

\* faulty variant: plans.slice(0, target)
selectFinalIndexes_firstN(plans, target, orderedColors) ==
  [i \in 1..Min(target, Len(plans)) |-> i]

\* the positions, in `plans`, of the plans selectFinalPlans returns
selectFinalIndexes(plans, target, orderedColors) ==
  IF Len(plans) <= target THEN [i \in DOMAIN plans |-> i]
  ELSE
    LET extra == FilterSeq(planColors(plans),
                           LAMBDA c : c \notin Range(orderedColors))
        colors == orderedColors \o extra
        st0 == [final |-> << >>, ptr |-> << >>, progress |-> TRUE,
                returned |-> FALSE]
        st1 == firstPass(plans, target, colors, 1, st0)
        st2 == IF st1.returned THEN st1
               ELSE roundRobin(plans, target, colors, st1)
        final == IF st2.returned THEN st2.final
                 ELSE fallbackFill(plans, target, 1, st2.final)
    IN  SubSeq(final, 1, Min(target, Len(final)))

\* faulty variant: no cut at the cap
selectFinalPlans_noCap(plans, target, orderedColors) == plans

\* faulty variant: the plans over the cap are merged into the last plan kept
selectFinalPlans_mergesRest(plans, target, orderedColors) ==
  LET idx == selectFinalIndexes(plans, target, orderedColors)
      rest == FilterSeq([i \in DOMAIN plans |-> i],
                        LAMBDA i : i \notin Range(idx))
      extra == FlattenSeq([k \in DOMAIN rest |-> plans[rest[k]].entries])
  IN  [i \in DOMAIN idx |->
         IF i = Len(idx)
         THEN [plans[idx[i]] EXCEPT !.entries = @ \o extra]
         ELSE plans[idx[i]]]

selectFinalPlans(plans, target, orderedColors) ==
  LET idx == selectFinalIndexes(plans, target, orderedColors)
  IN  [i \in DOMAIN idx |-> plans[idx[i]]]

(***************************************************************************)
(* The rendering-depth sort of lines 613-623.                              *)
(***************************************************************************)
depth(plan) ==
  plan.zBase * 1000 + plan.splitOffset + (IF plan.forceTop THEN DETAIL_BOOST ELSE 0)

\* faulty variant: darkest first
planOrderCmp_ascending(a, b) ==
  LET brightnessDiff == a.brightness - b.brightness
  IN  IF brightnessDiff # 0 THEN brightnessDiff ELSE depth(a) - depth(b)

planOrderCmp(a, b) ==
  LET brightnessDiff == b.brightness - a.brightness
  IN  IF brightnessDiff # 0 THEN brightnessDiff ELSE depth(a) - depth(b)

sortByDepth(plans) == StableSort(plans, planOrderCmp)

(***************************************************************************)
(* Inputs: the flag files of FLAGS_DIR.  A well-formed file is described   *)
(* by the elements under its root <svg>: a base pattern of elements, each  *)
(* element written `stretch` times in a row, the whole written `repeat`    *)
(* times.  A file may also be malformed XML (JSDOM throws) or hold no      *)
(* <svg> element.                                                          *)
(***************************************************************************)
MaxRepeat == 4
MaxRainbow == 7
MaxElements == 130

Elem(tag, fill, stroke, inDefs) ==
  [tag |-> tag, fill |-> fill, stroke |-> stroke, inDefs |-> inDefs]

RootSvg == Elem("svg", "", "", FALSE)
Gap == Elem("g", "", "", FALSE)
Red == Elem("path", "#f00", "", FALSE)
RedDefs == Elem("path", "red", "none", TRUE)
White == Elem("path", "#fff", "", FALSE)
Black == Elem("path", "#000", "transparent", FALSE)
Blue == Elem("path", "#00f", "", FALSE)
RedBlue == Elem("path", "#FF0000", "#00f", FALSE)
BlueStroke == Elem("path", "none", "#00f", FALSE)
RedRed == Elem("circle", "#f00", "red", FALSE)
PaintServer == Elem("rect", "url(#g)", "", FALSE)

RainbowElems ==
  <<Red, Elem("path", "#0f0", "", FALSE), Blue, Elem("path", "#ff0", "", FALSE),
    Elem("path", "#0ff", "", FALSE), Elem("path", "#f0f", "", FALSE),
    White, Black>>

Singles == {<<Gap>>, <<Red>>, <<RedDefs>>, <<White>>, <<Black>>, <<RedBlue>>,
            <<BlueStroke>>, <<RedRed>>, <<PaintServer>>}

Pairs == {<<a, b>> : a \in {Red, White},
                     b \in {Gap, RedDefs, Black, Blue, BlueStroke}}

Triples == {<<RedDefs, Gap, Red>>, <<Red, White, Blue>>, <<White, Gap, Black>>,
            <<White, Black, Red>>, <<Red, Red, White>>}

Rainbows == {SubSeq(RainbowElems, 1, n) : n \in 4..Min(MaxRainbow, Len(RainbowElems))}

BasePatterns == Singles \cup Pairs \cup Triples \cup Rainbows

Stretches == {1, SPLIT_ENTRY_THRESHOLD, SPLIT_ENTRY_THRESHOLD + 1,
              2 * SPLIT_ENTRY_THRESHOLD + 1}

SvgFile(base, stretch, repeat) ==
  [kind |-> "svg", base |-> base, stretch |-> stretch, repeat |-> repeat]

MalformedFile == [kind |-> "malformed", base |-> << >>, stretch |-> 1, repeat |-> 1]

NoSvgFile == [kind |-> "nosvg", base |-> << >>, stretch |-> 1, repeat |-> 1]

Flags ==
  {f \in {SvgFile(b, s, r) : b \in BasePatterns, s \in Stretches,
                             r \in 1..MaxRepeat} :
      Len(f.base) * f.stretch * f.repeat <= MaxElements}
    \cup {MalformedFile, NoSvgFile}

\* the contents the other file of the batch ranges over
PlainFlags ==
  {SvgFile(<<Red, White, Blue>>, 1, 1), SvgFile(<<Gap>>, 1, 1), MalformedFile}

\* glob.sync(...).sort(): the basenames of the flag files, sorted
FlagFiles == <<"de", "fr", "xx">>

\* querySelectorAll('*') of the parsed document, root first
walkElements(file) ==
  LET n == Len(file.base)
      total == n * file.stretch * file.repeat
  IN  <<RootSvg>> \o
      [i \in 1..total |-> file.base[(((i - 1) \div file.stretch) % n) + 1]]

(***************************************************************************)
(* Output: files written by writeLayer and main.                           *)
(***************************************************************************)
NoDir == {[name |-> "", kind |-> "nodir", color |-> "", entries |-> << >>,
           clip |-> NoClip]}

StaleFile(cc) ==
  [name |-> cc \o "__09_stale.svg", kind |-> "stale", color |-> "",
   entries |-> << >>, clip |-> NoClip]

PadTwo(index) ==
  IF index < 10 THEN "0" \o ToString(index) ELSE ToString(index)

\* faulty variant: the index is left out of the name
layerFileName_noIndex(cc, index, colorHex) ==
  cc \o "__" \o StripHash(colorHex) \o ".svg"

layerFileName(cc, index, colorHex) ==
  cc \o "__" \o PadTwo(index) \o "_" \o StripHash(colorHex) \o ".svg"

fullFileName(cc) == cc \o "__full.svg"

\* the file writeLayer writes
layerFile(cc, plan, index) ==
  [name |-> layerFileName(cc, index, plan.color), kind |-> "layer",
   color |-> plan.color, entries |-> plan.entries, clip |-> plan.clip]

fullFile(cc) ==
  [name |-> fullFileName(cc), kind |-> "full", color |-> "",
   entries |-> << >>, clip |-> NoClip]

\* lines 625-641: the z value of every plan, by the per-zBase usage counter
zStackOf(plans) ==
  [i \in DOMAIN plans |->
     plans[i].zBase
       + Cardinality({j \in 1..(i - 1) : plans[j].zBase = plans[i].zBase})]

NoManifestFile == [written |-> FALSE, content |-> << >>]

(***************************************************************************)
(* State.                                                                  *)
(***************************************************************************)
VARIABLES
  flagsDir,        \* FLAGS_DIR: file name -> content
  outDir,          \* OUT_DIR: code -> set of files, NoDir when absent
  manifestFile,    \* OUT_DIR/manifest.json
  manifest,        \* main's manifest object
  fileIdx,         \* position of the for loop in FlagFiles
  pc,              \* position inside main
  colorReveal,     \* main's colorReveal
  initialPlans,    \* layerPlans as built by lines 533-577
  layerPlans,      \* main's layerPlans
  processedPlans,  \* main's processedPlans
  cursor,          \* the split loop's cursor
  guard,           \* the split loop's guard
  run,             \* how many times the extractor has been started
  firstRun,        \* what the first run left behind, once it has ended
  outputRoot,      \* quality check: public/output, its country directories
  qpc,             \* quality check: position inside its main
  countryIdx,      \* quality check: position of main's for loop
  layerIdx,        \* quality check: checkCountryLayers' i
  warnings,        \* quality check: checkCountryLayers' warnings
  issues,          \* quality check: main's issues
  exitCode,        \* quality check: the exit status of the process
  splitPlan,       \* a call of splitIntoPieces: its plan
  splitCount,      \* a call of splitIntoPieces: its pieceCount
  splitPieces,     \* a call of splitIntoPieces: what it returned
  stack,           \* server: the middleware and routes of app, as registered
  pubDir,          \* server: the files of PUB_DIR
  request,         \* server: the request being answered
  layerPos,        \* server: the entry of stack the request has reached
  response,        \* server: the response sent
  spc              \* server: position in the handling of a request

vars == <<flagsDir, outDir, manifestFile, manifest, fileIdx, pc, colorReveal,
          initialPlans, layerPlans, processedPlans, cursor, guard, run,
          firstRun, outputRoot, qpc, countryIdx, layerIdx, warnings, issues,
          exitCode, splitPlan, splitCount, splitPieces, stack, pubDir,
          request, layerPos, response, spc>>

server == <<stack, pubDir, request, layerPos, response, spc>>

NoRequest == [method |-> "", path |-> << >>]

NoResponse == [status |-> 0, by |-> "", json |-> << >>, file |-> << >>]

\* no server is running
ServerOff ==
  /\ stack = << >>
  /\ pubDir = {}
  /\ request = NoRequest
  /\ layerPos = 0
  /\ response = NoResponse
  /\ spc = "off"

calls == <<splitPlan, splitCount, splitPieces>>

\* splitIntoPieces has not been called on its own
NoCall ==
  /\ splitPlan = planOfGroup("#000000", <<NewEntry(0, FALSE)>>)
  /\ splitCount = -1
  /\ splitPieces = NoPieces

quality == <<outputRoot, qpc, countryIdx, layerIdx, warnings, issues, exitCode>>

\* the quality check is not running
QualityOff ==
  /\ outputRoot = [exists |-> FALSE, dirs |-> << >>]
  /\ qpc = "off"
  /\ countryIdx = 0
  /\ layerIdx = 0
  /\ warnings = << >>
  /\ issues = << >>
  /\ exitCode = -1

\* no run has ended yet
NoRun == [outDir |-> << >>, manifestFile |-> NoManifestFile,
          manifest |-> << >>, pc |-> "none"]

cc == FlagFiles[fileIdx]

svgSrc == flagsDir[cc]

Init ==
  /\ \E first \in Flags, second \in PlainFlags, rest \in {NoSvgFile} :
       flagsDir \in {[de |-> first, fr |-> second, xx |-> rest],
                     [de |-> second, fr |-> first, xx |-> rest]}
  /\ \E stale \in BOOLEAN :
       /\ outDir = [c \in Range(FlagFiles) |->
                      IF stale THEN {StaleFile(c)} ELSE NoDir]
       /\ manifestFile = IF stale
                         THEN [written |-> TRUE, content |-> << >>]
                         ELSE NoManifestFile
  /\ manifest = << >>
  /\ fileIdx = 1
  /\ pc = "loop"
  /\ colorReveal = << >>
  /\ initialPlans = << >>
  /\ layerPlans = << >>
  /\ processedPlans = << >>
  /\ cursor = 0
  /\ guard = 0
  /\ run = 1
  /\ firstRun = NoRun
  /\ QualityOff
  /\ NoCall
  /\ ServerOff

perFlag == <<colorReveal, initialPlans, layerPlans, processedPlans, cursor, guard>>

\* lines 491-497: a skipped code loses its stale directory
SkipCode ==
  /\ pc = "loop" /\ fileIdx <= Len(FlagFiles)
  /\ cc \in SKIP_CODES
  /\ outDir' = [outDir EXCEPT ![cc] = NoDir]
  /\ fileIdx' = fileIdx + 1
  /\ UNCHANGED <<server, calls, quality, run, firstRun, flagsDir, manifestFile, manifest, pc, perFlag>>

\* line 501: JSDOM throws on malformed XML; main has no try/catch, so the
\* exception ends the process
ParseThrows ==
  /\ pc = "loop" /\ fileIdx <= Len(FlagFiles)
  /\ cc \notin SKIP_CODES
  /\ svgSrc.kind = "malformed"
  /\ pc' = "crashed"
  /\ UNCHANGED <<server, calls, quality, run, firstRun, flagsDir, outDir, manifestFile, manifest, fileIdx, perFlag>>

\* line 504
NoSvgElement ==
  /\ pc = "loop" /\ fileIdx <= Len(FlagFiles)
  /\ cc \notin SKIP_CODES
  /\ svgSrc.kind = "nosvg"
  /\ fileIdx' = fileIdx + 1
  /\ UNCHANGED <<server, calls, quality, run, firstRun, flagsDir, outDir, manifestFile, manifest, pc, perFlag>>

\* faulty variant: a flag without colors is skipped, nothing written
CopyUncolored_skips ==
  /\ pc = "loop" /\ fileIdx <= Len(FlagFiles)
  /\ cc \notin SKIP_CODES
  /\ svgSrc.kind = "svg"
  /\ collectColorMeta(walkElements(svgSrc)).order = << >>
  /\ fileIdx' = fileIdx + 1
  /\ UNCHANGED <<server, calls, quality, run, firstRun, flagsDir, outDir, manifestFile, manifest, pc, perFlag>>

\* lines 506-528: no color found
CopyUncolored ==
  /\ pc = "loop" /\ fileIdx <= Len(FlagFiles)
  /\ cc \notin SKIP_CODES
  /\ svgSrc.kind = "svg"
  /\ collectColorMeta(walkElements(svgSrc)).order = << >>
  /\ outDir' = [outDir EXCEPT ![cc] = {fullFile(cc)}]
  /\ manifest' = (cc :> [colors |-> << >>, files |-> <<fullFileName(cc)>>,
                         z |-> << >>, full |-> fullFileName(cc)]) @@ manifest
  /\ fileIdx' = fileIdx + 1
  /\ UNCHANGED <<server, calls, quality, run, firstRun, flagsDir, manifestFile, pc, perFlag>>

\* faulty variant: a flag whose output directory exists already is taken as
\* extracted and passed over
BeginFlag_skipsExisting ==
  /\ pc = "loop" /\ fileIdx <= Len(FlagFiles)
  /\ cc \notin SKIP_CODES
  /\ svgSrc.kind = "svg"
  /\ collectColorMeta(walkElements(svgSrc)).order # << >>
  /\ IF outDir[cc] # NoDir
     THEN /\ fileIdx' = fileIdx + 1
          /\ UNCHANGED <<outDir, pc, perFlag>>
     ELSE LET colorMeta == collectColorMeta(walkElements(svgSrc))
              reveal == orderColorsForReveal(colorMeta.order)
              plans == buildLayerPlans(colorMeta, reveal)
          IN  /\ colorReveal' = reveal
              /\ initialPlans' = plans
              /\ layerPlans' = plans
              /\ outDir' = [outDir EXCEPT ![cc] = {fullFile(cc)}]
              /\ processedPlans' = << >>
              /\ cursor' = 0
              /\ guard' = 0
              /\ pc' = "expand"
              /\ UNCHANGED fileIdx
  /\ UNCHANGED <<server, calls, quality, run, firstRun, flagsDir, manifestFile, manifest>>

\* lines 506-516 and 531-577: clear the directory, write the full file,
\* build the initial plans
BeginFlag ==
  /\ pc = "loop" /\ fileIdx <= Len(FlagFiles)
  /\ cc \notin SKIP_CODES
  /\ svgSrc.kind = "svg"
  /\ LET colorMeta == collectColorMeta(walkElements(svgSrc))
         reveal == orderColorsForReveal(colorMeta.order)
         plans == buildLayerPlans(colorMeta, reveal)
     IN  /\ colorMeta.order # << >>
         /\ colorReveal' = reveal
         /\ initialPlans' = plans
         /\ layerPlans' = plans
  /\ outDir' = [outDir EXCEPT ![cc] = {fullFile(cc)}]
  /\ processedPlans' = << >>
  /\ cursor' = 0
  /\ guard' = 0
  /\ pc' = "expand"
  /\ UNCHANGED <<server, calls, quality, run, firstRun, flagsDir, manifestFile, manifest, fileIdx>>

\* line 579
Expand ==
  /\ pc = "expand"
  /\ processedPlans' = expandLargePlans(layerPlans)
  /\ pc' = "split"
  /\ UNCHANGED <<server, calls, quality, run, firstRun, flagsDir, outDir, manifestFile, manifest, fileIdx,
                 colorReveal, initialPlans, layerPlans, cursor, guard>>

\* faulty variant: the loop gives up one plan short of the target
splitLoopRuns_stopsEarly ==
  /\ Len(processedPlans) < TARGET_LAYERS - 1
  /\ Len(processedPlans) > 0
  /\ guard < GUARD_LIMIT

splitLoopRuns ==
  /\ Len(processedPlans) < TARGET_LAYERS
  /\ Len(processedPlans) > 0
  /\ guard < GUARD_LIMIT

\* faulty variant: Math.min(remaining, 3)
splitPieceCount_noPlusOne == Min(TARGET_LAYERS - Len(layerPlans), 3)

\* line 590
splitPieceCount == Min((TARGET_LAYERS - Len(layerPlans)) + 1, 3)

\* faulty variant: splice(index, 0, ...pieces), the split plan stays in the list
splice_keepsParent(plans, index, pieces) ==
  SubSeq(plans, 1, index) \o pieces \o SubSeq(plans, index + 1, Len(plans))

\* processedPlans.splice(index, 1, ...pieces)
splice(plans, index, pieces) ==
  SubSeq(plans, 1, index) \o pieces \o SubSeq(plans, index + 2, Len(plans))

\* lines 586-602: one iteration of the split loop
SplitStep ==
  /\ pc = "split"
  /\ splitLoopRuns
  /\ LET index == cursor % Len(processedPlans)
         plan == processedPlans[index + 1]
         pieceCount == splitPieceCount
         pieces == splitIntoPieces(plan, pieceCount)
     IN  processedPlans' =
           IF pieceCount <= 1 THEN processedPlans
           ELSE IF Len(pieces) > 1 THEN splice(processedPlans, index, pieces)
           ELSE processedPlans
  /\ cursor' = cursor + 1
  /\ guard' = guard + 1
  /\ UNCHANGED <<server, calls, quality, run, firstRun, flagsDir, outDir, manifestFile, manifest, fileIdx, pc,
                 colorReveal, initialPlans, layerPlans>>

\* lines 605-610
SelectFinal ==
  /\ pc = "split"
  /\ ~splitLoopRuns
  /\ layerPlans' =
       IF Len(processedPlans) > TARGET_LAYERS
       THEN selectFinalPlans(processedPlans, TARGET_LAYERS, colorReveal)
       ELSE processedPlans
  /\ pc' = "sort"
  /\ UNCHANGED <<server, calls, quality, run, firstRun, flagsDir, outDir, manifestFile, manifest, fileIdx,
                 colorReveal, initialPlans, processedPlans, cursor, guard>>

\* lines 613-623
SortPlans ==
  /\ pc = "sort"
  /\ layerPlans' = sortByDepth(layerPlans)
  /\ pc' = "write"
  /\ UNCHANGED <<server, calls, quality, run, firstRun, flagsDir, outDir, manifestFile, manifest, fileIdx,
                 colorReveal, initialPlans, processedPlans, cursor, guard>>

manifestEntry(code, plans) ==
  [colors |-> [i \in DOMAIN plans |-> plans[i].color],
   files |-> [i \in DOMAIN plans |-> layerFileName(code, i - 1, plans[i].color)],
   z |-> zStackOf(plans),
   full |-> fullFileName(code)]

\* lines 625-650: write every layer, record the manifest entry
WriteLayers ==
  /\ pc = "write"
  /\ outDir' = [outDir EXCEPT ![cc] =
                  @ \cup {layerFile(cc, layerPlans[i], i - 1) : i \in DOMAIN layerPlans}]
  /\ manifest' = (cc :> manifestEntry(cc, layerPlans)) @@ manifest
  /\ fileIdx' = fileIdx + 1
  /\ pc' = "loop"
  /\ UNCHANGED <<server, calls, quality, run, firstRun, flagsDir, manifestFile, perFlag>>

\* line 653
WriteManifest ==
  /\ pc = "loop" /\ fileIdx > Len(FlagFiles)
  /\ manifestFile' = [written |-> TRUE, content |-> manifest]
  /\ pc' = "done"
  /\ UNCHANGED <<server, calls, quality, run, firstRun, flagsDir, outDir, manifest, fileIdx, perFlag>>

Next ==
  \/ SkipCode
  \/ ParseThrows
  \/ NoSvgElement
  \/ CopyUncolored
  \/ BeginFlag
  \/ Expand
  \/ SplitStep
  \/ SelectFinal
  \/ SortPlans
  \/ WriteLayers
  \/ WriteManifest

Spec == Init /\ [][Next]_vars

\* the extractor is started a second time on the same FLAGS_DIR, with OUT_DIR
\* as the first run left it: a new process, main's locals start afresh
RunAgain ==
  /\ pc \in {"done", "crashed"}
  /\ run = 1
  /\ run' = 2
  /\ firstRun' = [outDir |-> outDir, manifestFile |-> manifestFile,
                  manifest |-> manifest, pc |-> pc]
  /\ manifest' = << >>
  /\ fileIdx' = 1
  /\ pc' = "loop"
  /\ colorReveal' = << >>
  /\ initialPlans' = << >>
  /\ layerPlans' = << >>
  /\ processedPlans' = << >>
  /\ cursor' = 0
  /\ guard' = 0
  /\ UNCHANGED <<server, calls, quality, flagsDir, outDir, manifestFile>>

NextTwice == Next \/ RunAgain

SpecTwice == Init /\ [][NextTwice]_vars

(***************************************************************************)
(* The layer quality check (create.sh, lines 573-662): a program of its    *)
(* own, run on the PNG layers under public/output.                         *)
(***************************************************************************)
DIFF_THRESHOLD == 5

MaxLayers == 3

\* a decoded PNG: width, height and the RGBA bytes, row by row
Png(width, height, data) ==
  [kind |-> "png", width |-> width, height |-> height, data |-> data]

\* a file PNG.sync.read cannot decode
CorruptPng == [kind |-> "corrupt", width |-> 0, height |-> 0, data |-> << >>]

BlackPixel == Png(1, 1, <<0, 0, 0, 255>>)
Gray5Pixel == Png(1, 1, <<5, 5, 5, 255>>)
Gray6Clear == Png(1, 1, <<6, 6, 6, 0>>)
Red16Pixel == Png(1, 1, <<16, 0, 0, 255>>)
WideBlack == Png(2, 1, <<0, 0, 0, 255, 0, 0, 0, 255>>)
WideHalfRed == Png(2, 1, <<0, 0, 0, 255, 30, 0, 0, 255>>)
TallHalfRed == Png(1, 2, <<0, 0, 0, 255, 30, 0, 0, 255>>)

Pngs == {BlackPixel, Gray5Pixel, Gray6Clear, Red16Pixel, WideBlack,
         WideHalfRed, TallHalfRed, CorruptPng}

\* the sorted *.png files of one country directory
LayerLists ==
  UNION {[1..n -> Pngs] : n \in 0..MaxLayers}

OtherLists == {<< >>, <<BlackPixel, Red16Pixel>>, <<WideBlack, WideHalfRed>>}

AbsDiff(a, b) == IF a >= b THEN a - b ELSE b - a

\* faulty variant: only the amount of pixel data is compared
sizesDiffer_byLength(pngA, pngB) ==
  Len(pngA.data) # Len(pngB.data)

sizesDiffer(pngA, pngB) ==
  pngA.width # pngB.width \/ pngA.height # pngB.height

\* lines 590-597: total / (totalPixels * 3), kept as a fraction
averageDifference(pngA, pngB) ==
  LET pixels == Len(pngA.data) \div 4
      T[p \in 0..pixels] ==
        IF p = 0 THEN 0
        ELSE LET i == 4 * (p - 1) + 1
             IN  T[p - 1] + AbsDiff(pngA.data[i], pngB.data[i])
                          + AbsDiff(pngA.data[i + 1], pngB.data[i + 1])
                          + AbsDiff(pngA.data[i + 2], pngB.data[i + 2])
  IN  [num |-> T[pixels], den |-> pngA.width * pngA.height * 3]

\* diff <= n
atMost(diff, n) == diff.num <= n * diff.den

countries == outputRoot.dirs

layers == countries[countryIdx].layers

\* the extractor's state, which the quality check leaves alone
extractor == <<flagsDir, outDir, manifestFile, manifest, fileIdx, pc, perFlag,
               run, firstRun>>

\* lines 624-628
MissingOutput ==
  /\ qpc = "start"
  /\ ~outputRoot.exists
  /\ exitCode' = 1
  /\ qpc' = "exited"
  /\ UNCHANGED <<server, calls, extractor, outputRoot, countryIdx, layerIdx, warnings, issues>>

\* lines 630-637
ListCountries ==
  /\ qpc = "start"
  /\ outputRoot.exists
  /\ countryIdx' = 1
  /\ issues' = << >>
  /\ qpc' = "countries"
  /\ UNCHANGED <<server, calls, extractor, outputRoot, layerIdx, warnings, exitCode>>

\* lines 638-640 and 607-609
BeginCountry ==
  /\ qpc = "countries"
  /\ countryIdx <= Len(countries)
  /\ warnings' = << >>
  /\ layerIdx' = 1
  /\ qpc' = "layers"
  /\ UNCHANGED <<server, calls, extractor, outputRoot, countryIdx, issues, exitCode>>

\* lines 610-611: PNG.sync.read throws on a file it cannot decode; nothing
\* catches it and the process ends with status 1
LoadThrows ==
  /\ qpc = "layers"
  /\ layerIdx < Len(layers)
  /\ "corrupt" \in {layers[layerIdx].kind, layers[layerIdx + 1].kind}
  /\ exitCode' = 1
  /\ qpc' = "thrown"
  /\ UNCHANGED <<server, calls, extractor, outputRoot, countryIdx, layerIdx, warnings, issues>>

\* line 612 and 587-589: averageDifference throws on layers of different
\* sizes; nothing catches it and the process ends with status 1
CompareThrows ==
  /\ qpc = "layers"
  /\ layerIdx < Len(layers)
  /\ "corrupt" \notin {layers[layerIdx].kind, layers[layerIdx + 1].kind}
  /\ sizesDiffer(layers[layerIdx], layers[layerIdx + 1])
  /\ exitCode' = 1
  /\ qpc' = "thrown"
  /\ UNCHANGED <<server, calls, extractor, outputRoot, countryIdx, layerIdx, warnings, issues>>

\* faulty variant: the average is taken with an integer division
isWarning_integerAverage(diff) ==
  diff.num \div diff.den <= DIFF_THRESHOLD

\* line 613
isWarning(diff) == atMost(diff, DIFF_THRESHOLD)

\* lines 610-620: one turn of checkCountryLayers' loop
CompareLayers ==
  /\ qpc = "layers"
  /\ layerIdx < Len(layers)
  /\ "corrupt" \notin {layers[layerIdx].kind, layers[layerIdx + 1].kind}
  /\ ~sizesDiffer(layers[layerIdx], layers[layerIdx + 1])
  /\ LET diff == averageDifference(layers[layerIdx], layers[layerIdx + 1])
     IN  warnings' =
           IF isWarning(diff)
           THEN Append(warnings, [prev |-> layerIdx, next |-> layerIdx + 1,
                                  diff |-> diff])
           ELSE warnings
  /\ layerIdx' = layerIdx + 1
  /\ UNCHANGED <<server, calls, extractor, outputRoot, qpc, countryIdx, issues, exitCode>>

\* lines 621 and 641-644
EndCountry ==
  /\ qpc = "layers"
  /\ layerIdx >= Len(layers)
  /\ issues' = IF Len(warnings) > 0
               THEN Append(issues, [country |-> countries[countryIdx].country,
                                    warnings |-> warnings])
               ELSE issues
  /\ countryIdx' = countryIdx + 1
  /\ qpc' = "countries"
  /\ UNCHANGED <<server, calls, extractor, outputRoot, layerIdx, warnings, exitCode>>

\* lines 646-660
Report ==
  /\ qpc = "countries"
  /\ countryIdx > Len(countries)
  /\ exitCode' = IF Len(issues) > 0 THEN 1 ELSE 0
  /\ qpc' = "exited"
  /\ UNCHANGED <<server, calls, extractor, outputRoot, countryIdx, layerIdx, warnings, issues>>

\* the extractor is not running
ExtractorOff ==
  /\ flagsDir = [c \in Range(FlagFiles) |-> NoSvgFile]
  /\ outDir = [c \in Range(FlagFiles) |-> NoDir]
  /\ manifestFile = NoManifestFile
  /\ manifest = << >>
  /\ fileIdx = 1
  /\ pc = "off"
  /\ colorReveal = << >>
  /\ initialPlans = << >>
  /\ layerPlans = << >>
  /\ processedPlans = << >>
  /\ cursor = 0
  /\ guard = 0
  /\ run = 1
  /\ firstRun = NoRun

InitQuality ==
  /\ ExtractorOff
  /\ \/ outputRoot = [exists |-> FALSE, dirs |-> << >>]
     \/ \E first \in LayerLists, second \in OtherLists :
          outputRoot \in
            {[exists |-> TRUE,
              dirs |-> <<[country |-> "de", layers |-> first],
                         [country |-> "fr", layers |-> second]>>],
             [exists |-> TRUE,
              dirs |-> <<[country |-> "de", layers |-> second],
                         [country |-> "fr", layers |-> first]>>]}
  /\ qpc = "start"
  /\ countryIdx = 0
  /\ layerIdx = 0
  /\ warnings = << >>
  /\ issues = << >>
  /\ exitCode = -1
  /\ NoCall
  /\ ServerOff

NextQuality ==
  \/ MissingOutput
  \/ ListCountries
  \/ BeginCountry
  \/ LoadThrows
  \/ CompareThrows
  \/ CompareLayers
  \/ EndCountry
  \/ Report

SpecQuality == InitQuality /\ [][NextQuality]_vars

(***************************************************************************)
(* splitIntoPieces on its own: called on a plan as main builds it, then on *)
(* pieces it returned, with the piece counts its callers can pass.         *)
(***************************************************************************)
MaxGeneration == 3

\* lines 290 and 590: pieceCount is Math.min(..., 3); 0 and 1 are refused
PieceCounts == 0..3

RootPlans ==
  {planOfGroup("#ff0000", <<[NewEntry(1, FALSE) EXCEPT !.keepFill = TRUE]>>),
   planOfGroup("#0000ff", <<[NewEntry(4, TRUE) EXCEPT !.keepStroke = TRUE],
                            [NewEntry(5, FALSE) EXCEPT !.keepFill = TRUE,
                                                       !.keepStroke = TRUE]>>)}

InitSplit ==
  /\ ExtractorOff
  /\ QualityOff
  /\ splitPlan \in RootPlans
  /\ splitCount = -1
  /\ splitPieces = NoPieces
  /\ ServerOff

\* one call: of the plan of the call before, or of one of its pieces
CallSplit ==
  /\ \E plan \in {splitPlan} \cup Range(splitPieces), pieceCount \in PieceCounts :
       /\ plan.splitGeneration <= MaxGeneration
       /\ splitPlan' = plan
       /\ splitCount' = pieceCount
       /\ splitPieces' = splitIntoPieces(plan, pieceCount)
  /\ UNCHANGED <<server, extractor, quality>>

NextSplit == CallSplit

SpecSplit == InitSplit /\ [][NextSplit]_vars

(***************************************************************************)
(* The server: an express application over output/ and public/.  The same  *)
(* server is written twice, in tools/extract-flag-layers.js (lines         *)
(* 659-681) and in the server.js of create.sh (lines 242-266); the two     *)
(* register the same three entries in different orders.  A path is the     *)
(* sequence of its segments.                                               *)
(***************************************************************************)
ApiManifest == <<"api", "manifest">>

IndexHtml == <<"index.html">>

\* app.use(mount, express.static(root, { fallthrough: false }))
staticLayer(mount, root) ==
  [kind |-> "static", path |-> mount, root |-> root, fallthrough |-> FALSE]

\* app.get('/api/manifest', handler)
manifestRoute ==
  [kind |-> "route", path |-> ApiManifest, root |-> "", fallthrough |-> FALSE]

\* tools/extract-flag-layers.js lines 668-676: the route, then the two mounts
extractorStack ==
  <<manifestRoute, staticLayer(<<"output">>, "OUT_DIR"), staticLayer(<< >>, "PUB_DIR")>>

\* create.sh lines 252-260: the two mounts, then the route
createShStack ==
  <<staticLayer(<<"output">>, "OUT_DIR"), staticLayer(<< >>, "PUB_DIR"), manifestRoute>>

IsPrefix(short, long) ==
  /\ Len(short) <= Len(long)
  /\ \A i \in 1..Len(short) : short[i] = long[i]

\* the files of OUT_DIR: manifest.json and what the extractor wrote
outFiles ==
  (IF manifestFile.written THEN {<<"manifest.json">>} ELSE {})
    \cup UNION {{<<c, f.name>> : f \in {g \in outDir[c] : g.kind # "nodir"}} :
                  c \in Range(FlagFiles)}

rootFiles(root) == IF root = "OUT_DIR" THEN outFiles ELSE pubDir

\* the entry of stack the request has reached
layerAt == stack[layerPos]

\* app.use matches a path under the mount, app.get the path itself and the
\* GET method
layerMatches(layer) ==
  IF layer.kind = "static"
  THEN IsPrefix(layer.path, request.path)
  ELSE request.method = "GET" /\ request.path = layer.path

\* the file express.static looks for: the path below the mount, index.html
\* for the directory itself
staticTarget(layer) ==
  LET below == SubSeq(request.path, Len(layer.path) + 1, Len(request.path))
  IN  IF below = << >> THEN IndexHtml ELSE below

Routing == spc = "routing" /\ layerPos <= Len(stack)

Methods == {"GET", "POST"}

Paths == {ApiManifest, IndexHtml, << >>, <<"missing.png">>, <<"output">>,
          <<"output", "manifest.json">>, <<"output", "de", "de__full.svg">>}

\* a request arrives
Receive ==
  /\ spc \in {"listening", "answered"}
  /\ \E m \in Methods, p \in Paths : request' = [method |-> m, path |-> p]
  /\ layerPos' = 1
  /\ response' = NoResponse
  /\ spc' = "routing"
  /\ UNCHANGED <<calls, extractor, quality, stack, pubDir>>

\* the entry does not match the request: the next entry is tried
NextLayer ==
  /\ Routing
  /\ ~layerMatches(layerAt)
  /\ layerPos' = layerPos + 1
  /\ UNCHANGED <<calls, extractor, quality, stack, pubDir, request, response, spc>>

\* line 670 (create.sh line 257): no manifest.json, the answer is {}
ManifestMissing ==
  /\ Routing
  /\ layerAt.kind = "route" /\ layerMatches(layerAt)
  /\ ~manifestFile.written
  /\ response' = [status |-> 200, by |-> "route", json |-> << >>, file |-> << >>]
  /\ spc' = "answered"
  /\ UNCHANGED <<calls, extractor, quality, stack, pubDir, request, layerPos>>

\* lines 671-672 (create.sh lines 258-259): the parsed content of manifest.json
ManifestParsed ==
  /\ Routing
  /\ layerAt.kind = "route" /\ layerMatches(layerAt)
  /\ manifestFile.written
  /\ response' = [status |-> 200, by |-> "route", json |-> manifestFile.content,
                  file |-> << >>]
  /\ spc' = "answered"
  /\ UNCHANGED <<calls, extractor, quality, stack, pubDir, request, layerPos>>

\* express.static finds the file and sends it
StaticServes ==
  /\ Routing
  /\ layerAt.kind = "static" /\ layerMatches(layerAt)
  /\ request.method = "GET"
  /\ staticTarget(layerAt) \in rootFiles(layerAt.root)
  /\ response' = [status |-> 200, by |-> "static", json |-> << >>,
                  file |-> staticTarget(layerAt)]
  /\ spc' = "answered"
  /\ UNCHANGED <<calls, extractor, quality, stack, pubDir, request, layerPos>>

\* express.static finds no file: with fallthrough disabled the request ends
\* in a 404 error, the entries registered after it are not tried
StaticNotFound ==
  /\ Routing
  /\ layerAt.kind = "static" /\ layerMatches(layerAt)
  /\ request.method = "GET"
  /\ staticTarget(layerAt) \notin rootFiles(layerAt.root)
  /\ IF layerAt.fallthrough
     THEN layerPos' = layerPos + 1 /\ UNCHANGED <<response, spc>>
     ELSE /\ response' = [status |-> 404, by |-> "static", json |-> << >>,
                          file |-> << >>]
          /\ spc' = "answered"
          /\ UNCHANGED layerPos
  /\ UNCHANGED <<calls, extractor, quality, stack, pubDir, request>>

\* express.static serves GET and HEAD only: with fallthrough disabled any
\* other method ends in a 405 error
StaticMethodNotAllowed ==
  /\ Routing
  /\ layerAt.kind = "static" /\ layerMatches(layerAt)
  /\ request.method # "GET"
  /\ IF layerAt.fallthrough
     THEN layerPos' = layerPos + 1 /\ UNCHANGED <<response, spc>>
     ELSE /\ response' = [status |-> 405, by |-> "static", json |-> << >>,
                          file |-> << >>]
          /\ spc' = "answered"
          /\ UNCHANGED layerPos
  /\ UNCHANGED <<calls, extractor, quality, stack, pubDir, request>>

\* a manifest.json as the extractor writes it for one flag
ServedManifest ==
  "de" :> [colors |-> <<"#ff0000">>, files |-> <<layerFileName("de", 0, "#ff0000")>>,
           z |-> <<0>>, full |-> fullFileName("de")]

\* the server listens over the output of an extractor run; the extractor
\* and the quality check are not running
InitServer ==
  /\ flagsDir = [c \in Range(FlagFiles) |-> NoSvgFile]
  /\ \E extracted \in BOOLEAN :
       outDir = [c \in Range(FlagFiles) |->
                   IF extracted /\ c = "de" THEN {fullFile(c)} ELSE NoDir]
  /\ manifestFile \in {NoManifestFile,
                       [written |-> TRUE, content |-> << >>],
                       [written |-> TRUE, content |-> ServedManifest]}
  /\ manifest = << >>
  /\ fileIdx = 1
  /\ pc = "off"
  /\ colorReveal = << >>
  /\ initialPlans = << >>
  /\ layerPlans = << >>
  /\ processedPlans = << >>
  /\ cursor = 0
  /\ guard = 0
  /\ run = 1
  /\ firstRun = NoRun
  /\ QualityOff
  /\ NoCall
  /\ stack \in {extractorStack, createShStack}
  /\ pubDir \in {{}, {IndexHtml}, {IndexHtml, ApiManifest}}
  /\ request = NoRequest
  /\ layerPos = 0
  /\ response = NoResponse
  /\ spc = "listening"

NextServer ==
  \/ Receive
  \/ NextLayer
  \/ ManifestMissing
  \/ ManifestParsed
  \/ StaticServes
  \/ StaticNotFound
  \/ StaticMethodNotAllowed

SpecServer == InitServer /\ [][NextServer]_vars

(***************************************************************************)
(* Vocabulary of the properties.                                           *)
(***************************************************************************)
\* the plans of the current flag are final: selection has run
FinalStage == pc \in {"sort", "write"}

\* the code whose iteration just ended
lastCode == FlagFiles[fileIdx - 1]

\* the iteration that just ended wrote the layers of layerPlans
JustWritten ==
  /\ pc = "loop" /\ fileIdx > 1
  /\ lastCode \in DOMAIN manifest
  /\ manifest[lastCode].colors # << >>

\* the codes whose iteration has ended
doneCodes == {FlagFiles[i] : i \in 1..(fileIdx - 1)}

\* a well-formed flag none of whose elements carries a paint color
NoPaint(file) ==
  /\ file.kind = "svg"
  /\ \A i \in DOMAIN file.base :
       /\ file.base[i].fill \notin DOMAIN PaintTable
       /\ file.base[i].stroke \notin DOMAIN PaintTable

planIndexes(plan) == {plan.entries[i].index : i \in DOMAIN plan.entries}

\* two plans paint a common (color, element)
sharesEntry(a, b) ==
  a.color = b.color /\ planIndexes(a) \cap planIndexes(b) # {}

clipOf(plan) == IF plan.clip.type = "rect" THEN plan.clip ELSE UnitClip

interiorsDisjoint(a, b) ==
  a.x1 <= b.x0 \/ b.x1 <= a.x0 \/ a.y1 <= b.y0 \/ b.y1 <= a.y0

NoOverlap(plans) ==
  \A i, j \in DOMAIN plans :
    (i < j /\ sharesEntry(plans[i], plans[j]))
      => interiorsDisjoint(clipOf(plans[i]), clipOf(plans[j]))

clipArea(c) == (c.x1 - c.x0) * (c.y1 - c.y0)

\* the area of the viewport the final plans derived from `plan` cover
\* (they do not overlap, see C3)
coveredArea(plan, finals) ==
  LET S[i \in 0..Len(finals)] ==
        IF i = 0 THEN 0
        ELSE S[i - 1] + (IF finals[i].color = plan.color
                            /\ finals[i].entries = plan.entries
                         THEN clipArea(clipOf(finals[i])) ELSE 0)
  IN  S[Len(finals)]

planColorSet(plans) == {plans[i].color : i \in DOMAIN plans}

(***************************************************************************)
(* C1: every flag with at least one color ends with exactly TARGET_LAYERS  *)
(* final plans, and its manifest entry lists TARGET_LAYERS layer files.    *)
(***************************************************************************)
C1_ExactlyTargetLayers ==
  /\ FinalStage => Len(layerPlans) = TARGET_LAYERS
  /\ \A c \in DOMAIN manifest :
       manifest[c].colors # << >> => Len(manifest[c].files) = TARGET_LAYERS

\* a flag that started with fewer plans than the target has been split up to
\* it, after a flag with more plans than the target was cut down to it
C1_Witness ==
  /\ JustWritten
  /\ Len(initialPlans) < TARGET_LAYERS
  /\ Len(manifest[lastCode].files) = TARGET_LAYERS
  /\ \E c \in DOMAIN manifest :
       /\ c # lastCode
       /\ Len(manifest[c].files) = TARGET_LAYERS
       /\ Cardinality(Range(manifest[c].colors)) > TARGET_LAYERS - 1

(***************************************************************************)
(* C2: a flag of one painted element in one color.                         *)
(***************************************************************************)
SingleSolid == Len(initialPlans) = 1 /\ Len(initialPlans[1].entries) = 1

\* C2, as stated: the single-color flag yields one layer, colors is the
\* one-element list of its color and files has length 1
C2_SingleLayerAsStated ==
  (JustWritten /\ SingleSolid) =>
    /\ manifest[lastCode].colors = <<initialPlans[1].color>>
    /\ Len(manifest[lastCode].files) = 1

\* C2, amended: the single-color flag yields TARGET_LAYERS layers, all of its
\* one color
C2_SingleColorSplitToTarget ==
  (JustWritten /\ SingleSolid) =>
    /\ manifest[lastCode].colors =
         [i \in 1..TARGET_LAYERS |-> initialPlans[1].color]
    /\ Len(manifest[lastCode].files) = TARGET_LAYERS

C2_Witness == JustWritten /\ SingleSolid

(***************************************************************************)
(* C3: plans of one flag that paint a common (color, element) have clip    *)
(* rectangles with disjoint interiors, at every step from expansion to the *)
(* final selection; a split plan therefore never stays beside its pieces.  *)
(***************************************************************************)
C3_PlansNeverOverlap ==
  /\ NoOverlap(processedPlans)
  /\ NoOverlap(layerPlans)

\* final plans after expansion, a further split and a selection, two of them
\* pieces of one plan
C3_Witness ==
  /\ pc = "write"
  /\ Len(processedPlans) > TARGET_LAYERS
  /\ \E i \in DOMAIN initialPlans :
       Len(initialPlans[i].entries) > SPLIT_ENTRY_THRESHOLD
  /\ \E i, j \in DOMAIN layerPlans :
       /\ i < j
       /\ sharesEntry(layerPlans[i], layerPlans[j])
       /\ layerPlans[i].splitGeneration > 1

(***************************************************************************)
(* C4: with at most TARGET_LAYERS initial plans, the final plans derived   *)
(* from every initial plan cover the whole viewport.                       *)
(***************************************************************************)
C4_FullCoverage ==
  (FinalStage /\ Len(initialPlans) <= TARGET_LAYERS) =>
    \A i \in DOMAIN initialPlans :
      coveredArea(initialPlans[i], layerPlans) = ClipUnit * ClipUnit

C6_SkippedAsStated ==
  \A c \in doneCodes :
    (c \notin SKIP_CODES /\ NoPaint(flagsDir[c])) =>
      /\ fullFile(c) \notin outDir[c]
      /\ c \notin DOMAIN manifest

\* C6, amended: it gets no layer file; its directory holds the full copy
\* only and its manifest entry lists that copy with no color and no z
C6_UncoloredCopiedWhole ==
  \A c \in doneCodes :
    (c \notin SKIP_CODES /\ NoPaint(flagsDir[c])) =>
      /\ outDir[c] = {fullFile(c)}
      /\ c \in DOMAIN manifest
      /\ manifest[c] = [colors |-> << >>, files |-> <<fullFileName(c)>>,
                        z |-> << >>, full |-> fullFileName(c)]

C6_Witness ==
  \E c \in doneCodes :
    /\ c \notin SKIP_CODES /\ NoPaint(flagsDir[c])
    /\ Len(flagsDir[c].base) > 0
    /\ {StaleFile(c)} # outDir[c]

(***************************************************************************)
(* C7: files, colors and z of a manifest entry.                            *)
(***************************************************************************)
\* C7, as stated: in every entry the three arrays have the same length
C7_ParallelAsStated ==
  \A c \in DOMAIN manifest :
    /\ Len(manifest[c].files) = Len(manifest[c].colors)
    /\ Len(manifest[c].files) = Len(manifest[c].z)

\* C7 for the flags with at least one color, where it holds: the three
\* arrays have the same length and position i describes plan i: file i was
\* written with that plan's color, entries and clip, colors[i] is its color
\* and z[i] is its zBase plus the number of earlier plans of that zBase
C7_ParallelWhenColored ==
  /\ \A c \in DOMAIN manifest :
       manifest[c].colors # << >> =>
         /\ Len(manifest[c].files) = Len(manifest[c].colors)
         /\ Len(manifest[c].files) = Len(manifest[c].z)
  /\ JustWritten =>
       /\ DOMAIN manifest[lastCode].files = DOMAIN layerPlans
       /\ \A i \in DOMAIN layerPlans :
            /\ manifest[lastCode].colors[i] = layerPlans[i].color
            /\ manifest[lastCode].z[i] - layerPlans[i].zBase \in 0..(i - 1)
            /\ \E f \in outDir[lastCode] :
                 /\ f.name = manifest[lastCode].files[i]
                 /\ f.kind = "layer"
                 /\ f.color = manifest[lastCode].colors[i]
                 /\ f.entries = layerPlans[i].entries
                 /\ f.clip = layerPlans[i].clip

\* an entry of several colors, one of them on more than one layer
C7_Witness ==
  /\ JustWritten
  /\ Cardinality(Range(manifest[lastCode].colors)) > 1
  /\ Cardinality(Range(manifest[lastCode].colors)) < Len(manifest[lastCode].colors)

(***************************************************************************)
(* C8: with at most TARGET_LAYERS colors, every color of the flag keeps a  *)
(* layer in the final plans; the selection takes one plan of every color,  *)
(* in reveal order, before a second plan of any color.                     *)
(***************************************************************************)
C8_EveryColorKept ==
  /\ (FinalStage /\ Len(colorReveal) <= TARGET_LAYERS) =>
       Range(colorReveal) \subseteq planColorSet(layerPlans)
  /\ (pc = "sort" /\ Len(processedPlans) > TARGET_LAYERS) =>
       \A k \in 1..Min(Len(colorReveal), TARGET_LAYERS) :
         layerPlans[k].color = colorReveal[k]

\* a selection among more than TARGET_LAYERS plans of several colors, the
\* first TARGET_LAYERS of which are all of one color
C8_Witness ==
  /\ pc = "sort"
  /\ Len(processedPlans) > TARGET_LAYERS
  /\ Len(colorReveal) > 1 /\ Len(colorReveal) <= TARGET_LAYERS
  /\ \A k \in 1..TARGET_LAYERS : processedPlans[k].color = processedPlans[1].color

(***************************************************************************)
(* C9: the reduction to the cap.                                           *)
(***************************************************************************)
\* C9, as stated: every (color, element) of the initial plans still belongs
\* to a final plan
C9_NothingDiscardedAsStated ==
  (FinalStage /\ Len(processedPlans) > TARGET_LAYERS) =>
    \A i \in DOMAIN initialPlans :
      \E j \in DOMAIN layerPlans :
        /\ layerPlans[j].color = initialPlans[i].color
        /\ planIndexes(initialPlans[i]) \subseteq planIndexes(layerPlans[j])

\* C9, amended: the reduction keeps TARGET_LAYERS of the plans as they are
\* and drops the others; nothing is merged, every final plan holds the
\* entries of exactly one initial plan
C9_SelectedNotMerged ==
  (FinalStage /\ Len(processedPlans) > TARGET_LAYERS) =>
    /\ Len(layerPlans) = TARGET_LAYERS
    /\ Range(layerPlans) \subseteq Range(processedPlans)
    /\ \A j \in DOMAIN layerPlans :
         \E i \in DOMAIN initialPlans :
           /\ initialPlans[i].color = layerPlans[j].color
           /\ initialPlans[i].entries = layerPlans[j].entries

\* a reduction that dropped every plan of some color
C9_Witness ==
  /\ FinalStage
  /\ Len(processedPlans) > TARGET_LAYERS
  /\ planColorSet(layerPlans) # planColorSet(initialPlans)

(***************************************************************************)
(* C10: when the processing of one flag throws, the run still ends with    *)
(* every other flag processed and manifest.json written with the entries   *)
(* of the flags that succeeded.                                            *)
(***************************************************************************)
Terminated == pc \in {"done", "crashed"}

C10_BatchSurvivesThrow ==
  Terminated =>
    /\ manifestFile = [written |-> TRUE, content |-> manifest]
    /\ \A c \in Range(FlagFiles) :
         (c \notin SKIP_CODES /\ flagsDir[c].kind = "svg") => c \in DOMAIN manifest

(***************************************************************************)
(* C11: a second run of the extractor on the same flags, started with the  *)
(* output directory the first run left, ends as the first did: the same    *)
(* manifest, the same manifest.json and the same files with the same       *)
(* content in every output directory.                                      *)
(***************************************************************************)
C11_SecondRunSameOutput ==
  (run = 2 /\ Terminated) =>
    /\ pc = firstRun.pc
    /\ manifest = firstRun.manifest
    /\ manifestFile = firstRun.manifestFile
    /\ outDir = firstRun.outDir

\* a second run has ended that wrote layers into a directory the first run
\* had created, and the first run had started with stale files or with none
C11_Witness ==
  /\ run = 2 /\ pc = "done"
  /\ \E c \in DOMAIN manifest :
       /\ manifest[c].colors # << >>
       /\ Cardinality(outDir[c]) = TARGET_LAYERS + 1

(***************************************************************************)
(* C12: the i-th name (from 0) in files of a flag with colors is           *)
(* <cc>__<i in two digits>_<color without #>.svg; the names of one flag    *)
(* are pairwise distinct, none is <cc>__full.svg, and each names a layer   *)
(* file of its own in the flag's directory.                                *)
(***************************************************************************)
TwoDigits == <<"00", "01", "02", "03", "04", "05", "06", "07", "08", "09">>

C12_LayerFileNames ==
  \A c \in DOMAIN manifest :
    manifest[c].colors # << >> =>
      LET files == manifest[c].files
          written == {f \in outDir[c] : f.kind = "layer"}
      IN  /\ \A i \in DOMAIN files :
               files[i] = c \o "__" \o TwoDigits[i] \o "_"
                            \o StripHash(manifest[c].colors[i]) \o ".svg"
          /\ \A i, j \in DOMAIN files : files[i] = files[j] => i = j
          /\ c \o "__full.svg" \notin Range(files)
          /\ {f.name : f \in written} = Range(files)
          /\ Cardinality(written) = Len(files)

\* a flag of one color only: its file names differ by the index alone
C12_Witness ==
  \E c \in DOMAIN manifest :
    /\ Len(manifest[c].files) = TARGET_LAYERS
    /\ Cardinality(Range(manifest[c].colors)) = 1
    /\ Cardinality(outDir[c]) = TARGET_LAYERS + 1

(***************************************************************************)
(* C13: in the sorted final plans, a plan with forceTop comes after every  *)
(* plan of the same brightness without forceTop, whatever their zBase and  *)
(* splitOffset.                                                            *)
(***************************************************************************)
C13_ForceTopAbove ==
  pc = "write" =>
    \A i, j \in DOMAIN layerPlans :
      ( /\ brightnessScore(layerPlans[i].color) = brightnessScore(layerPlans[j].color)
        /\ layerPlans[i].forceTop
        /\ ~layerPlans[j].forceTop ) => j < i

(***************************************************************************)
(* C14: right after expansion, and before any split or selection, the plan *)
(* list is the initial list with every plan of more than                   *)
(* SPLIT_ENTRY_THRESHOLD entries replaced, at its place, by its 2 (up to   *)
(* twice the threshold) or 3 (above) vertical clip pieces; the plans of at *)
(* most SPLIT_ENTRY_THRESHOLD entries are unchanged.                       *)
(***************************************************************************)
JustExpanded == pc = "split" /\ cursor = 0

expectedPieces(plan) ==
  IF Len(plan.entries) <= SPLIT_ENTRY_THRESHOLD THEN 1
  ELSE IF Len(plan.entries) <= 2 * SPLIT_ENTRY_THRESHOLD THEN 2
  ELSE 3

\* the number of plans the i first initial plans expand to
expandedBefore(i) ==
  LET S[k \in 0..Len(initialPlans)] ==
        IF k = 0 THEN 0 ELSE S[k - 1] + expectedPieces(initialPlans[k])
  IN  S[i]

C14_EagerExpansion ==
  JustExpanded =>
    /\ layerPlans = initialPlans
    /\ Len(processedPlans) = expandedBefore(Len(initialPlans))
    /\ \A i \in DOMAIN initialPlans :
         LET plan == initialPlans[i]
             k == expectedPieces(plan)
             at == expandedBefore(i - 1)
         IN  IF k = 1 THEN processedPlans[at + 1] = plan
             ELSE \A m \in 1..k :
                    LET piece == processedPlans[at + m]
                    IN  /\ piece.color = plan.color
                        /\ piece.entries = plan.entries
                        /\ piece.zBase = plan.zBase
                        /\ piece.forceTop = plan.forceTop
                        /\ piece.splitGeneration = 1
                        /\ piece.clip.type = "rect"
                        /\ piece.clip.x0 * k = (m - 1) * ClipUnit
                        /\ piece.clip.x1 * k = m * ClipUnit
                        /\ piece.clip.y0 = 0 /\ piece.clip.y1 = ClipUnit

\* an expansion of several plans: one cut in 2 in front of one of exactly
\* SPLIT_ENTRY_THRESHOLD entries, kept whole
C14_Witness ==
  /\ JustExpanded
  /\ \E i, j \in DOMAIN initialPlans :
       /\ i < j
       /\ expectedPieces(initialPlans[i]) = 2
       /\ Len(initialPlans[j].entries) = SPLIT_ENTRY_THRESHOLD
       /\ processedPlans[expandedBefore(j)] = initialPlans[j]

(***************************************************************************)
(* Vocabulary of the quality check's properties.                           *)
(***************************************************************************)
\* the two images have not the same width and height
mismatched(a, b) == ~(a.width = b.width /\ a.height = b.height)

\* the pairs of consecutive layers of a directory: k stands for (k, k + 1)
pairsOf(dir) == 1..(Len(dir.layers) - 1)

\* the pairs the check has gone past: country index and pair
pastPairs ==
  {<<c, k>> \in (DOMAIN countries) \X (1..MaxLayers + 1) :
     /\ k \in pairsOf(countries[c])
     /\ \/ c < countryIdx
        \/ c = countryIdx /\ qpc = "layers" /\ k < layerIdx}

allWarnings ==
  {<<c, w>> \in (DOMAIN countries) \X
                {[prev |-> k, next |-> k + 1] : k \in 1..MaxLayers + 1} :
     \/ /\ c = countryIdx /\ qpc \in {"layers", "thrown"}
        /\ \E i \in DOMAIN warnings :
             w = [prev |-> warnings[i].prev, next |-> warnings[i].next]
     \/ \E i \in DOMAIN issues :
          /\ issues[i].country = countries[c].country
          /\ \E j \in DOMAIN issues[i].warnings :
               w = [prev |-> issues[i].warnings[j].prev,
                    next |-> issues[i].warnings[j].next]}

(***************************************************************************)
(* C15: two layers of different width or height are never compared into a  *)
(* difference or a warning: the check never gets past such a pair, it      *)
(* throws there, which ends the run with a failure status, nothing being   *)
(* tried again.                                                            *)
(***************************************************************************)
C15_SizeMismatchIsFatal ==
  /\ \A p \in pastPairs :
       ~mismatched(countries[p[1]].layers[p[2]], countries[p[1]].layers[p[2] + 1])
  /\ \A x \in allWarnings :
       ~mismatched(countries[x[1]].layers[x[2].prev],
                   countries[x[1]].layers[x[2].next])
  /\ qpc = "thrown" =>
       /\ exitCode = 1
       /\ ~ENABLED NextQuality
       /\ mismatched(layers[layerIdx], layers[layerIdx + 1])
            \/ "corrupt" \in {layers[layerIdx].kind, layers[layerIdx + 1].kind}
  /\ qpc = "exited" =>
       \A c \in DOMAIN countries : \A k \in pairsOf(countries[c]) :
         ~mismatched(countries[c].layers[k], countries[c].layers[k + 1])

\* the check threw on two layers of as many pixels but of different shape,
\* after it had found a warning
C15_Witness ==
  /\ qpc = "thrown"
  /\ Len(warnings) > 0
  /\ layers[layerIdx].kind = "png" /\ layers[layerIdx + 1].kind = "png"
  /\ mismatched(layers[layerIdx], layers[layerIdx + 1])
  /\ Len(layers[layerIdx].data) = Len(layers[layerIdx + 1].data)

(***************************************************************************)
(* C16: the exit status of the quality check.                              *)
(***************************************************************************)
\* the sum over the red, green and blue bytes of the distances of a and b
channelTotal(a, b) ==
  LET T[i \in 0..Len(a.data)] ==
        IF i = 0 THEN 0
        ELSE T[i - 1] + (IF i % 4 = 0 THEN 0
                         ELSE IF a.data[i] >= b.data[i]
                              THEN a.data[i] - b.data[i]
                              ELSE b.data[i] - a.data[i])
  IN  T[Len(a.data)]

\* two consecutive layers of one size that differ, on average per channel,
\* by DIFF_THRESHOLD at most
violations ==
  {<<c, k>> \in (DOMAIN countries) \X (1..MaxLayers + 1) :
     /\ k \in pairsOf(countries[c])
     /\ LET a == countries[c].layers[k]
            b == countries[c].layers[k + 1]
        IN  /\ a.kind = "png" /\ b.kind = "png"
            /\ ~mismatched(a, b)
            /\ channelTotal(a, b) <= DIFF_THRESHOLD * 3 * a.width * a.height}

QualityEnded == qpc \in {"exited", "thrown"}

\* C16, as stated: the status is not 0 only if there is a violation, and
\* it is 0 when there is none
C16_ExitStatusAsStated ==
  QualityEnded =>
    /\ exitCode # 0 => violations # {}
    /\ violations = {} => exitCode = 0

\* C16, amended: when public/output exists and every layer pair can be
\* loaded and is of one size, the status is 1 if some pair is a violation
\* and 0 otherwise; the status is 1 too when public/output is missing and
\* when loading or comparing a pair throws, violation or not
C16_ExitStatus ==
  /\ (qpc = "exited" /\ outputRoot.exists) =>
       /\ violations # {} => exitCode = 1
       /\ violations = {} => exitCode = 0
       /\ Len(issues) = Cardinality({p[1] : p \in violations})
  /\ (qpc = "exited" /\ ~outputRoot.exists) => exitCode = 1
  /\ qpc = "thrown" => exitCode = 1
  /\ ~QualityEnded => exitCode = -1

\* the check ended with status 0 past a pair whose average difference is
\* above DIFF_THRESHOLD by less than 1
C16_Witness ==
  /\ qpc = "exited" /\ exitCode = 0
  /\ \E c \in DOMAIN countries : \E k \in pairsOf(countries[c]) :
       LET a == countries[c].layers[k]
           b == countries[c].layers[k + 1]
       IN  /\ channelTotal(a, b) > DIFF_THRESHOLD * 3 * a.width * a.height
           /\ channelTotal(a, b) < (DIFF_THRESHOLD + 1) * 3 * a.width * a.height

(***************************************************************************)
(* C17: the initial plans, before any expansion or split.                  *)
(***************************************************************************)
JustPlanned == pc = "expand"

\* the indexes of the elements that carry the color as fill or as stroke
paintedWith(els, hex) ==
  {i - 1 : i \in {k \in DOMAIN els :
                    /\ els[k].tag # "svg"
                    /\ hex \in {toHex(els[k].fill), toHex(els[k].stroke)}}}

plansOfHex(plans, hex) == {i \in DOMAIN plans : plans[i].color = hex}

\* C17, as stated: one initial plan per distinct color, holding all the
\* paint entries of the color
C17_OnePlanPerColorAsStated ==
  JustPlanned =>
    /\ Len(initialPlans) = Cardinality(Range(colorReveal))
    /\ \A hex \in Range(colorReveal) :
         Cardinality(plansOfHex(initialPlans, hex)) = 1

\* C17, amended: one initial plan per color and run of consecutive
\* elements: the entries of a plan have one color and consecutive element
\* indexes, two plans of one color are separated by an element without
\* that color, and the plans of a color hold together exactly the elements
\* painted with it; every color has at least one plan
C17_OnePlanPerColorRun ==
  JustPlanned =>
    LET els == walkElements(svgSrc)
    IN  /\ \A i \in DOMAIN initialPlans :
             LET entries == initialPlans[i].entries
             IN  /\ Len(entries) > 0
                 /\ \A k \in 1..(Len(entries) - 1) :
                      entries[k + 1].index = entries[k].index + 1
                 /\ initialPlans[i].clip = NoClip
                 /\ initialPlans[i].splitGeneration = 0
        /\ \A i, j \in DOMAIN initialPlans :
             (i < j /\ initialPlans[i].color = initialPlans[j].color) =>
               \A a \in planIndexes(initialPlans[i]),
                  b \in planIndexes(initialPlans[j]) : a + 1 < b
        /\ \A hex \in Range(colorReveal) :
             /\ plansOfHex(initialPlans, hex) # {}
             /\ UNION {planIndexes(initialPlans[i]) :
                         i \in plansOfHex(initialPlans, hex)}
                  = paintedWith(els, hex)
        /\ planColorSet(initialPlans) = Range(colorReveal)

\* a flag of several colors, one of them on two runs of elements
C17_Witness ==
  /\ JustPlanned
  /\ Cardinality(Range(colorReveal)) > 1
  /\ \E hex \in Range(colorReveal) :
       Cardinality(plansOfHex(initialPlans, hex)) > 1

(***************************************************************************)
(* C18: splitIntoPieces(plan, k).  With k >= 2 it returns k pieces; their  *)
(* clips lie inside the plan's clip (the whole viewport when it has none), *)
(* have pairwise disjoint interiors and cover it; the cut is vertical for  *)
(* an even splitGeneration and horizontal for an odd one; every piece has  *)
(* splitGeneration + 1 and the plan's color, entries, zBase, forceTop and  *)
(* brightness.  With k <= 1 it returns null.                               *)
(***************************************************************************)
Called == splitCount >= 0

pieceAreas(pieces) ==
  LET S[i \in 0..Len(pieces)] ==
        IF i = 0 THEN 0 ELSE S[i - 1] + clipArea(pieces[i].clip)
  IN  S[Len(pieces)]

C18_SplitIntoPieces ==
  Called =>
    LET whole == clipOf(splitPlan)
        even == splitPlan.splitGeneration % 2 = 0
    IN  /\ splitCount <= 1 => splitPieces = NoPieces
        /\ splitCount >= 2 =>
             /\ Len(splitPieces) = splitCount
             /\ \A i \in DOMAIN splitPieces :
                  LET piece == splitPieces[i]
                  IN  /\ piece.color = splitPlan.color
                      /\ piece.entries = splitPlan.entries
                      /\ piece.zBase = splitPlan.zBase
                      /\ piece.forceTop = splitPlan.forceTop
                      /\ piece.brightness = splitPlan.brightness
                      /\ piece.splitGeneration = splitPlan.splitGeneration + 1
                      /\ piece.clip.type = "rect"
                      /\ whole.x0 <= piece.clip.x0 /\ piece.clip.x0 < piece.clip.x1
                      /\ piece.clip.x1 <= whole.x1
                      /\ whole.y0 <= piece.clip.y0 /\ piece.clip.y0 < piece.clip.y1
                      /\ piece.clip.y1 <= whole.y1
                      /\ even => (piece.clip.y0 = whole.y0 /\ piece.clip.y1 = whole.y1)
                      /\ ~even => (piece.clip.x0 = whole.x0 /\ piece.clip.x1 = whole.x1)
             /\ \A i, j \in DOMAIN splitPieces :
                  i < j => interiorsDisjoint(splitPieces[i].clip, splitPieces[j].clip)
             /\ pieceAreas(splitPieces) = clipArea(whole)

\* a piece of a piece, cut across in 3
C18_Witness ==
  /\ Called
  /\ splitCount = 3
  /\ splitPlan.splitGeneration = 3
  /\ splitPlan.clip.type = "rect"
  /\ Len(splitPieces) = 3

(***************************************************************************)
(* C19: after a run, the directory of every flag with a manifest entry     *)
(* holds the full file and the layer files the entry lists, and nothing    *)
(* else; the directory of a flag whose code is in SKIP_CODES does not      *)
(* exist, and that flag has no manifest entry.                             *)
(***************************************************************************)
directoriesExact ==
  /\ \A c \in DOMAIN manifest :
       /\ {f.name : f \in outDir[c]}
            = {manifest[c].full} \cup Range(manifest[c].files)
       /\ \A f \in outDir[c] : f.kind \in {"full", "layer"}
       /\ fullFile(c) \in outDir[c]
  /\ \A c \in Range(FlagFiles) \cap SKIP_CODES :
       /\ outDir[c] = NoDir
       /\ c \notin DOMAIN manifest

C19_DirectoriesExact == Terminated => directoriesExact

\* C19 for the runs that reach the end of main, where it holds
C19_DirectoriesExactWhenDone == pc = "done" => directoriesExact

(***************************************************************************)
(* C20: within one manifest entry the z values are pairwise distinct.      *)
(***************************************************************************)
C20_DistinctZ ==
  \A c \in DOMAIN manifest :
    \A i, j \in DOMAIN manifest[c].z :
      manifest[c].z[i] = manifest[c].z[j] => i = j

(***************************************************************************)
(* C21: the split loop starts with 1 to 5 plans; every iteration replaces  *)
(* one plan by 2 or 3 pieces, so the number of plans grows by 1 or 2; the  *)
(* loop ends with at least TARGET_LAYERS and at most TARGET_LAYERS + 1     *)
(* plans, long before its guard of GUARD_LIMIT iterations is used up.      *)
(***************************************************************************)
InSplitLoop == pc = "split" /\ guard > 0

splitLoopBounded ==
  /\ pc = "split" =>
       /\ guard < TARGET_LAYERS
       /\ guard < GUARD_LIMIT
       /\ cursor = guard
       /\ Len(processedPlans) <= TARGET_LAYERS + 1 \/ guard = 0
  /\ (InSplitLoop /\ ~ENABLED SplitStep) =>
       /\ Len(processedPlans) >= TARGET_LAYERS
       /\ Len(processedPlans) <= TARGET_LAYERS + 1

splitStepGrows ==
  SplitStep =>
    /\ Len(processedPlans) \in 1..(TARGET_LAYERS - 1)
    /\ Len(processedPlans') - Len(processedPlans) \in {1, 2}

C21_SplitLoopTerminates == [](splitLoopBounded) /\ [][splitStepGrows]_vars

\* the loop has ended above the target, started from a single plan
C21_Witness ==
  /\ InSplitLoop
  /\ ~ENABLED SplitStep
  /\ Len(initialPlans) = 1
  /\ guard = 3
  /\ Len(processedPlans) = TARGET_LAYERS + 1

\* a GET request for /api/manifest has been answered
ManifestRequested ==
  spc = "answered" /\ request = [method |-> "GET", path |-> ApiManifest]

\* what the manifest handler answers: {} without manifest.json, its content
\* otherwise
manifestAnswer ==
  [status |-> 200, by |-> "route",
   json |-> IF manifestFile.written THEN manifestFile.content ELSE << >>,
   file |-> << >>]

\* C22: a GET request for /api/manifest is always answered by the manifest
\* handler, whatever the order of registration: with {} when manifest.json
\* does not exist and with its parsed content otherwise, never by the static
\* middleware
C22_ManifestHandlerAnswers == ManifestRequested => response = manifestAnswer

\* under the order of tools/extract-flag-layers.js the handler does answer
C22_HandlerFirstAnswers ==
  (ManifestRequested /\ stack = extractorStack) => response = manifestAnswer

\* under the order of create.sh the static middleware answers every time
C22_StaticFirstAnswers ==
  (ManifestRequested /\ stack = createShStack) => response.by = "static"

====
